---- MODULE Spec2Model ----
(***************************************************************************)
(* The template variable extraction and substitution engine of             *)
(* generate.py: extract_variables_from_template, generate_documents and    *)
(* the session cache of main.                                              *)
(*                                                                         *)
(* A text is a sequence of one-character strings.  A document is a record  *)
(* [paragraphs, tables]: paragraphs is a sequence of [style, text], tables *)
(* a sequence of tables, a table a sequence of rows, a row a sequence of   *)
(* cells, a cell a sequence of paragraphs.  Block indices are 0-based, as  *)
(* enumerate() numbers them.                                               *)
(***************************************************************************)
EXTENDS Integers, Sequences, FiniteSets, TLC

VARIABLES
    template_doc,        \* st.session_state.template_doc / the template_doc argument
    template_variables,  \* st.session_state.template_variables (a list)
    var_paragraphs_map,  \* st.session_state.var_paragraphs_map / the argument
    df,                  \* the data frame: [columns, rows]
    column_mapping,      \* dict in insertion order: a sequence of <<var, column>>
    filename_column,
    pc,                  \* "main" | "indexed" | "loop" | "done"
    idx,                 \* number of rows df.iterrows() has yielded
    doc_count,
    doc,                 \* the document built for the last row, or None
    files,               \* the output directory: base name -> saved document
    dir_exists,          \* os.makedirs(output_dir, exist_ok=True) has run
    raised,              \* the exception that left generate_documents, or None
    result,              \* <<>>, and <<count>> once generate_documents has returned
    template_file,       \* the template uploader's value (a file id), or None
    spreadsheet_file,    \* the spreadsheet uploader's value, or None
    last_template_file,  \* st.session_state.get('last_template_file')
    file_content,        \* what each uploaded file id holds
    gen_call,            \* <<>>, or <<the arguments of main's last generate_documents call>>
    parsed               \* whether the last rerun of main parsed the template

vars == <<template_doc, template_variables, var_paragraphs_map, df, column_mapping,
          filename_column, pc, idx, doc_count, doc, files, dir_exists, raised,
          result, template_file, spreadsheet_file, last_template_file,
          file_content, gen_call, parsed>>

None == "None"

(***************************************************************************)
(* Bounds of the model.                                                    *)
(***************************************************************************)
MaxPieces == 3      \* pieces of text in a whole template (indexing)
MaxParas == 2       \* top-level paragraphs of a template
MaxCells == 1       \* table cells of a template

(***************************************************************************)
(* Text helpers.                                                           *)
(***************************************************************************)
Braces == {"{", "}"}

Tok(name) == <<"{">> \o name \o <<"}">>

RECURSIVE Flatten(_)
Flatten(ss) == IF ss = <<>> THEN <<>> ELSE Head(ss) \o Flatten(Tail(ss))

Range(s) == {s[k] : k \in DOMAIN s}

Orderings(S) == {s \in [1..Cardinality(S) -> S] : Range(s) = S}

(***************************************************************************)
(* re.findall(r'\{([^{}]+)\}', text): the leftmost non-overlapping matches *)
(* of "{", one or more characters other than braces, "}"; the group is     *)
(* returned.  [^{}]+ is greedy and cannot cross a brace, so at a "{" the   *)
(* only candidate is the whole run of non-brace characters after it.       *)
(***************************************************************************)
RECURSIVE RunEnd(_, _)
RunEnd(text, p) ==
    IF p > Len(text) \/ text[p] \in Braces THEN p ELSE RunEnd(text, p + 1)

RECURSIVE FindAllFrom(_, _)
FindAllFrom(text, p) ==
    IF p > Len(text) THEN <<>>
    ELSE IF text[p] = "{"
         THEN LET e == RunEnd(text, p + 1)
              IN  IF e > p + 1 /\ e <= Len(text) /\ text[e] = "}"
                  THEN <<SubSeq(text, p + 1, e - 1)>> \o FindAllFrom(text, e + 1)
                  ELSE FindAllFrom(text, p + 1)
         ELSE FindAllFrom(text, p + 1)

FindAll(text) == FindAllFrom(text, 1)

(***************************************************************************)
(* extract_variables_from_template.  acc is [variables, var_paragraphs]:   *)
(* the set and the defaultdict(list), a function on the keys it holds.     *)
(***************************************************************************)
\* A mutant: an index is kept once per block, however often the token occurs.
AppendIndexOnce(vp, name, i) ==
    IF name \in DOMAIN vp
    THEN IF i \in {vp[name][k] : k \in DOMAIN vp[name]} THEN vp
         ELSE [vp EXCEPT ![name] = Append(@, i)]
    ELSE vp @@ (name :> <<i>>)

AppendIndex(vp, name, i) ==
    IF name \in DOMAIN vp
    THEN [vp EXCEPT ![name] = Append(@, i)]
    ELSE vp @@ (name :> <<i>>)

\* for match in matches: variables.add(match); var_paragraphs[match].append(i)
RECURSIVE AddMatches(_, _, _)
AddMatches(matches, i, acc) ==
    IF matches = <<>> THEN acc
    ELSE AddMatches(Tail(matches), i,
                    [variables |-> acc.variables \cup {Head(matches)},
                     var_paragraphs |-> AppendIndex(acc.var_paragraphs, Head(matches), i)])

\* for i, paragraph in enumerate(doc.paragraphs)
RECURSIVE IndexParagraphs(_, _, _)
IndexParagraphs(paragraphs, i, acc) ==
    IF i >= Len(paragraphs) THEN acc
    ELSE IndexParagraphs(paragraphs, i + 1,
                         AddMatches(FindAll(paragraphs[i + 1].text), i, acc))

\* for paragraph in cell.paragraphs: variables.update(matches)
RECURSIVE CellVariables(_)
CellVariables(cell) ==
    IF cell = <<>> THEN {}
    ELSE Range(FindAll(Head(cell).text)) \cup CellVariables(Tail(cell))

RECURSIVE RowVariables(_)
RowVariables(row) ==
    IF row = <<>> THEN {} ELSE CellVariables(Head(row)) \cup RowVariables(Tail(row))

RECURSIVE TableVariables(_)
TableVariables(table) ==
    IF table = <<>> THEN {} ELSE RowVariables(Head(table)) \cup TableVariables(Tail(table))

RECURSIVE TablesVariables(_)
TablesVariables(tables) ==
    IF tables = <<>> THEN {}
    ELSE TableVariables(Head(tables)) \cup TablesVariables(Tail(tables))

\* A mutant: the tables are not scanned.
ExtractNoTables(d) ==
    IndexParagraphs(d.paragraphs, 0, [variables |-> {}, var_paragraphs |-> <<>>])

ExtractVariablesFromTemplate(d) ==
    LET acc == IndexParagraphs(d.paragraphs, 0,
                               [variables |-> {}, var_paragraphs |-> <<>>])
    IN  [variables |-> acc.variables \cup TablesVariables(d.tables),
         var_paragraphs |-> acc.var_paragraphs]

\* var_paragraphs_map.get(var, [])
MapGet(map, var) == IF var \in DOMAIN map THEN map[var] ELSE <<>>

(***************************************************************************)
(* Bounded templates: a sequence of at most n pieces of text, cut into k   *)
(* top-level paragraphs and c table cells (one table of one row).          *)
(***************************************************************************)
PieceSeqs(pieces, n) == UNION {[1..k -> pieces] : k \in 0..n}

Monotone(f) == \A a, b \in DOMAIN f : a <= b => f[a] <= f[b]

Segment(s, f, j) ==
    LET at == {a \in DOMAIN s : f[a] = j}
    IN  IF at = {} THEN <<>>
        ELSE Flatten(SubSeq(s, CHOOSE a \in at : \A b \in at : a <= b,
                               CHOOSE a \in at : \A b \in at : a >= b))

MakeTemplate(s, k, c, f, st) ==
    [paragraphs |-> [j \in 1..k |-> [style |-> st[j], text |-> Segment(s, f, j)]],
     tables |-> IF c = 0 THEN <<>>
                ELSE << << [j \in 1..c |->
                               << [style |-> "Normal", text |-> Segment(s, f, k + j)] >>] >> >>]

Cuts(m, j) == {g \in [1..m -> 1..j] : Monotone(g)}

\* template_doc is one of the bounded templates.
TemplateDrawn(pieces, n, maxParas, maxCells, styles) ==
    \E s \in PieceSeqs(pieces, n), k \in 0..maxParas, c \in 0..maxCells :
        \E f \in Cuts(Len(s), k + c), st \in [1..k -> styles] :
            template_doc = MakeTemplate(s, k, c, f, st)

IndexPieces == {<<"{">>, <<"}">>, <<"a">>, Tok(<<"a">>), Tok(<<"n">>)}


(***************************************************************************)
(* Indexing a template: main, lines 156-162.  list(variables) lists the    *)
(* set in an order the hash seed decides: any order.                       *)
(***************************************************************************)
\* What a generate_documents call and main have not touched yet.
NotInMain ==
    /\ template_variables = None
    /\ idx = 0 /\ doc_count = 0 /\ doc = None /\ files = <<>>
    /\ dir_exists = FALSE /\ raised = None /\ result = <<>>
    /\ template_file = None /\ spreadsheet_file = None
    /\ last_template_file = None /\ file_content = <<>>
    /\ gen_call = <<>> /\ parsed = FALSE

InitIndex ==
    /\ TemplateDrawn(IndexPieces, MaxPieces, MaxParas, MaxCells, {"Normal"})
    /\ var_paragraphs_map = None
    /\ df = None /\ column_mapping = <<>> /\ filename_column = None
    /\ pc = "main"
    /\ NotInMain

Index ==
    /\ pc = "main"
    /\ LET r == ExtractVariablesFromTemplate(template_doc)
       IN  /\ template_variables' \in Orderings(r.variables)
           /\ var_paragraphs_map' = r.var_paragraphs
    /\ pc' = "indexed"
    /\ UNCHANGED <<template_doc, df, column_mapping, filename_column, idx, doc_count,
                   doc, files, dir_exists, raised, result, template_file,
                   spreadsheet_file, last_template_file, file_content, gen_call, parsed>>

NextIndex == Index

SpecIndex == InitIndex /\ [][NextIndex]_vars

(***************************************************************************)
(* pattern.sub(replacement_value, text), line 107.  The replacement is a   *)
(* string, so re reads it as a template before it looks for a match: "\\"  *)
(* is one backslash, a backslash and one of a b f n r t v is the control   *)
(* character, a backslash and any other ASCII letter is re.error (bad      *)
(* escape), a backslash and a digit 1-9 is re.error (invalid group         *)
(* reference: the pattern has no group), a backslash at the end is         *)
(* re.error, and a backslash before any other character stays as the two   *)
(* characters.  Not modelled: \g<...>, \0 and three-digit octal escapes;   *)
(* the bounded values hold no "g" and no digit after a backslash.          *)
(***************************************************************************)
AsciiLetters ==
    {"a","b","c","d","e","f","g","h","i","j","k","l","m","n","o","p","q","r","s","t",
     "u","v","w","x","y","z","A","B","C","D","E","F","G","H","I","J","K","L","M","N",
     "O","P","Q","R","S","T","U","V","W","X","Y","Z"}

Digits == {"0","1","2","3","4","5","6","7","8","9"}

TemplateEscapes ==
    ("a" :> "BEL") @@ ("b" :> "BS") @@ ("f" :> "FF") @@ ("n" :> "LF") @@
    ("r" :> "CR") @@ ("t" :> "TAB") @@ ("v" :> "VT") @@ ("\\" :> "\\")

Failed == [ok |-> FALSE, text |-> <<>>]

Prepend(s, r) == IF r.ok THEN [ok |-> TRUE, text |-> s \o r.text] ELSE r

RECURSIVE ExpandFrom(_, _)
ExpandFrom(repl, p) ==
    IF p > Len(repl) THEN [ok |-> TRUE, text |-> <<>>]
    ELSE IF repl[p] # "\\" THEN Prepend(<<repl[p]>>, ExpandFrom(repl, p + 1))
    ELSE IF p = Len(repl) THEN Failed
    ELSE LET c == repl[p + 1]
         IN  IF c \in DOMAIN TemplateEscapes
             THEN Prepend(<<TemplateEscapes[c]>>, ExpandFrom(repl, p + 2))
             ELSE IF c \in AsciiLetters \cup (Digits \ {"0"}) THEN Failed
             ELSE Prepend(<<"\\", c>>, ExpandFrom(repl, p + 2))

ExpandTemplate(repl) == ExpandFrom(repl, 1)

\* Every leftmost non-overlapping occurrence of the literal tok replaced by `by`.
RECURSIVE ReplaceFrom(_, _, _, _)
ReplaceFrom(text, tok, by, p) ==
    IF p > Len(text) THEN <<>>
    ELSE IF p + Len(tok) - 1 <= Len(text) /\ SubSeq(text, p, p + Len(tok) - 1) = tok
         THEN by \o ReplaceFrom(text, tok, by, p + Len(tok))
         ELSE <<text[p]>> \o ReplaceFrom(text, tok, by, p + 1)

\* re.compile(r'\{' + re.escape(var) + r'\}').sub(repl, text)
PatternSub(var, repl, text) ==
    LET t == ExpandTemplate(repl)
    IN  IF t.ok THEN [ok |-> TRUE, text |-> ReplaceFrom(text, Tok(var), t.text, 1)]
        ELSE Failed

(***************************************************************************)
(* generate_documents.  A cell of the data frame is a text or NaN (what    *)
(* pandas reads from an empty cell); str() gives "nan" for NaN.            *)
(***************************************************************************)
NaN == <<"NaN">>

Str(value) == IF value = NaN THEN <<"n", "a", "n">> ELSE value

MappingVars(mapping) == [k \in DOMAIN mapping |-> mapping[k][1]]

ColumnOf(mapping, var) ==
    mapping[CHOOSE k \in DOMAIN mapping : mapping[k][1] = var][2]

\* A mutant: row.get(column, '') in place of row[column].
ReplacementsLenient(row, mapping) ==
    [raised |-> None,
     values |-> [var \in Range(MappingVars(mapping)) |->
                    IF ColumnOf(mapping, var) \in DOMAIN row
                    THEN Str(row[ColumnOf(mapping, var)]) ELSE <<>>]]

\* replacements = {var: str(row[column]) for var, column in column_mapping.items()}
Replacements(row, mapping) ==
    IF \E k \in DOMAIN mapping : mapping[k][2] \notin DOMAIN row
    THEN [raised |-> "KeyError", values |-> <<>>]
    ELSE [raised |-> None,
          values |-> [var \in Range(MappingVars(mapping)) |->
                         Str(row[ColumnOf(mapping, var)])]]

\* for var in variables_to_replace: text = pattern.sub(replacement_value, text)
RECURSIVE SubAll(_, _, _)
SubAll(vs, text, values) ==
    IF vs = <<>> THEN [ok |-> TRUE, text |-> text]
    ELSE LET r == PatternSub(Head(vs), values[Head(vs)], text)
         IN  IF r.ok THEN SubAll(Tail(vs), r.text, values) ELSE Failed

\* [var for var in column_mapping.keys() if i in var_paragraphs_map.get(var, [])]
VariablesToReplace(mapping, map, i) ==
    SelectSeq(MappingVars(mapping), LAMBDA var : i \in Range(MapGet(map, var)))

\* The body of the paragraph loop, lines 93-109, from paragraph i on.
RECURSIVE RenderParagraphs(_, _, _, _, _)
RenderParagraphs(paragraphs, i, mapping, map, values) ==
    IF i >= Len(paragraphs) THEN [raised |-> None, paragraphs |-> <<>>]
    ELSE LET r == SubAll(VariablesToReplace(mapping, map, i),
                         paragraphs[i + 1].text, values)
         IN  IF ~r.ok THEN [raised |-> "re.error", paragraphs |-> <<>>]
             ELSE LET rest == RenderParagraphs(paragraphs, i + 1, mapping, map, values)
                  IN  IF rest.raised # None THEN rest
                      ELSE [raised |-> None,
                            paragraphs |-> <<[style |-> paragraphs[i + 1].style,
                                              text |-> r.text]>> \o rest.paragraphs]

\* Lines 87-109: doc = Document() has no table, and none is added to it.
RenderRow(tdoc, row, mapping, map) ==
    LET rep == Replacements(row, mapping)
    IN  IF rep.raised # None THEN [raised |-> rep.raised, doc |-> None]
        ELSE LET r == RenderParagraphs(tdoc.paragraphs, 0, mapping, map, rep.values)
             IN  IF r.raised # None THEN [raised |-> r.raised, doc |-> None]
                 ELSE [raised |-> None,
                       doc |-> [paragraphs |-> r.paragraphs, tables |-> <<>>]]

(***************************************************************************)
(* The file name, lines 112-113: str(...).replace(" ", "_"), then          *)
(* re.sub(r'[^\w\-_\.]', '', ...).  \w also covers the word characters of  *)
(* other scripts; the bounded values are ASCII.                            *)
(***************************************************************************)
WordChars == AsciiLetters \cup Digits \cup {"_"}

KeptInNames == WordChars \cup {"-", "_", "."}

RECURSIVE ReplaceSpaces(_)
ReplaceSpaces(text) ==
    IF text = <<>> THEN <<>>
    ELSE <<IF Head(text) = " " THEN "_" ELSE Head(text)>> \o ReplaceSpaces(Tail(text))

RECURSIVE RemoveInvalid(_)
RemoveInvalid(text) ==
    IF text = <<>> THEN <<>>
    ELSE (IF Head(text) \in KeptInNames THEN <<Head(text)>> ELSE <<>>)
            \o RemoveInvalid(Tail(text))

\* A mutant: the invalid characters are removed before the spaces are replaced.
DeriveFilenameRemoveFirst(value) == ReplaceSpaces(RemoveInvalid(Str(value)))

DeriveFilename(value) == RemoveInvalid(ReplaceSpaces(Str(value)))

\* A mutant: a file that exists is not written again.
SaveKeepFirst(fs, name, d) == fs @@ (name :> d)

\* doc.save(os.path.join(output_dir, f"{filename}.docx")): the file is replaced.
Save(fs, name, d) == (name :> d) @@ fs

GenStart ==
    /\ pc = "indexed"
    /\ pc' = "loop"
    /\ dir_exists' = TRUE
    /\ doc_count' = 0
    /\ idx' = 0
    /\ UNCHANGED <<template_doc, template_variables, var_paragraphs_map, df,
                   column_mapping, filename_column, doc, files, raised, result,
                   template_file, spreadsheet_file, last_template_file,
                   file_content, gen_call, parsed>>

\* The body of "for index, row in df.iterrows()", lines 86-118: the document
\* is built, then the file name is read from the row, then the file is saved.
RowStep(tdoc, row, mapping, fncol, map, fs) ==
    LET r == RenderRow(tdoc, row, mapping, map)
    IN  IF r.raised # None THEN [raised |-> r.raised, built |-> FALSE, doc |-> None, files |-> fs]
        ELSE IF fncol \notin DOMAIN row
        THEN [raised |-> "KeyError", built |-> TRUE, doc |-> r.doc, files |-> fs]
        ELSE [raised |-> None, built |-> TRUE, doc |-> r.doc,
              files |-> Save(fs, DeriveFilename(row[fncol]), r.doc)]

\* One pass of the loop.
GenRow ==
    /\ pc = "loop"
    /\ idx < Len(df.rows)
    /\ LET r == RowStep(template_doc, df.rows[idx + 1], column_mapping,
                        filename_column, var_paragraphs_map, files)
       IN  /\ doc' = IF r.built THEN r.doc ELSE doc
           /\ files' = r.files
           /\ raised' = r.raised
           /\ IF r.raised # None
              THEN pc' = "done" /\ UNCHANGED <<doc_count, idx>>
              ELSE pc' = pc /\ doc_count' = doc_count + 1 /\ idx' = idx + 1
    /\ UNCHANGED <<template_doc, template_variables, var_paragraphs_map, df,
                   column_mapping, filename_column, dir_exists, result,
                   template_file, spreadsheet_file, last_template_file,
                   file_content, gen_call, parsed>>

GenReturn ==
    /\ pc = "loop"
    /\ idx = Len(df.rows)
    /\ result' = <<doc_count>>
    /\ pc' = "done"
    /\ UNCHANGED <<template_doc, template_variables, var_paragraphs_map, df,
                   column_mapping, filename_column, idx, doc_count, doc, files,
                   dir_exists, raised, template_file, spreadsheet_file,
                   last_template_file, file_content, gen_call, parsed>>

Next == GenStart \/ GenRow \/ GenReturn

(***************************************************************************)
(* The arguments of a generate_documents call.  main passes the position   *)
(* index it built from the template it passes.                             *)
(***************************************************************************)
MaxRenderPieces == 2   \* pieces of text in a whole template (rendering)
MaxRows == 2           \* rows of the data frame of a batch
MaxNameLen == 3        \* characters of a filename-source value

VarNames == {<<"a">>, <<"n">>}
Columns == {"c1", "c2"}

\* Column mappings: a dict keeps its keys distinct and in insertion order.
Mappings(names, columns) ==
    UNION {{[k \in DOMAIN o |-> <<o[k], cs[k]>>] : cs \in [DOMAIN o -> columns]}
           : o \in UNION {Orderings(S) : S \in SUBSET names}}

\* Data frames: every row has the columns of the frame.
Frames(columnSets, values, counts) ==
    UNION {{[columns |-> C, rows |-> rs] :
               rs \in UNION {[1..n -> [C -> values]] : n \in counts}}
           : C \in columnSets}

\* Rendering one row: templates, mappings and cell values at large.
RenderPieces == {Tok(<<"a">>), Tok(<<"n">>), <<"x">>}
RenderStyles == {"Normal", "Title"}
RenderValues ==
    {NaN, <<>>, <<"x">>, Tok(<<"n">>), <<"\\">>, <<"\\", "\\">>, <<"\\", "n">>}

Init ==
    /\ TemplateDrawn(RenderPieces, MaxRenderPieces, MaxParas, MaxCells, RenderStyles)
    /\ var_paragraphs_map = ExtractVariablesFromTemplate(template_doc).var_paragraphs
    /\ df \in Frames({Columns}, RenderValues, {1})
    /\ column_mapping \in Mappings(VarNames, Columns)
    /\ filename_column = "c1"
    /\ pc = "indexed"
    /\ NotInMain

Spec == Init /\ [][Next]_vars

\* A batch of rows: few templates, the rows and the file names at large.
Para(style, text) == [style |-> style, text |-> text]
BatchTemplates ==
    {[paragraphs |-> << Para("Normal", Tok(<<"a">>)) >>, tables |-> << >>],
     [paragraphs |-> << Para("Title", <<"x">>),
                        Para("Normal", Tok(<<"a">>) \o Tok(<<"a">>)) >>,
      tables |-> << >>]}
BatchValues == {<<"a", " ", "b">>, <<"a", "_", "b">>, <<"/">>, <<>>}

InitBatch ==
    /\ template_doc \in BatchTemplates
    /\ var_paragraphs_map = ExtractVariablesFromTemplate(template_doc).var_paragraphs
    /\ df \in Frames({{"c1"}, Columns}, BatchValues, 0..MaxRows)
    /\ column_mapping \in Mappings({<<"a">>}, Columns)
    /\ filename_column \in Columns
    /\ pc = "indexed"
    /\ NotInMain

SpecBatch == InitBatch /\ [][Next]_vars

\* The file name of one row: the filename-source values at large.
NameChars == {"J", " ", "/", "_", "-", ".", "2", "\\"}
JohnDoe2024 == <<"J","o","h","n"," ","D","o","e","/","2","0","2","4">>
NameValues ==
    {NaN, JohnDoe2024} \cup UNION {[1..k -> NameChars] : k \in 0..MaxNameLen}

InitName ==
    /\ template_doc = [paragraphs |-> <<>>, tables |-> <<>>]
    /\ var_paragraphs_map = ExtractVariablesFromTemplate(template_doc).var_paragraphs
    /\ df \in Frames({{"c1"}}, NameValues, {1})
    /\ column_mapping = <<>>
    /\ filename_column = "c1"
    /\ pc = "indexed"
    /\ NotInMain

SpecName == InitName /\ [][Next]_vars

(***************************************************************************)
(* main: one rerun of the script, lines 122-220.  The uploaders give the   *)
(* files the browser holds; an UploadedFile is compared by its file id.    *)
(* The session state lives across reruns, the files on disk too.           *)
(***************************************************************************)
FileIds == {"f1", "f2", "f3"}

Unreadable == [ok |-> FALSE, doc |-> [paragraphs |-> << >>, tables |-> << >>]]

MainContents ==
    {Unreadable,
     [ok |-> TRUE, doc |-> [paragraphs |-> << Para("Normal", <<"x">>) >>, tables |-> << >>]],
     [ok |-> TRUE, doc |-> [paragraphs |-> << Para("Normal", Tok(<<"a">>)) >>, tables |-> << >>]],
     [ok |-> TRUE, doc |-> [paragraphs |-> << Para("Title", <<"x">>),
                                              Para("Normal", Tok(<<"n">>) \o Tok(<<"a">>)) >>,
                            tables |-> << >>]]}

\* convert_to_csv: the frame of the spreadsheet "s1"; "bad" cannot be read.
Spreadsheets == {"s1", "bad"}
MainFrame == [columns |-> {"c1"}, rows |-> << [c \in {"c1"} |-> <<"x">>] >>]

\* generate_documents as main calls it: the whole loop, from row k on.
RECURSIVE RunRows(_, _, _, _, _, _, _)
RunRows(tdoc, rows, k, mapping, fncol, map, fs) ==
    IF k > Len(rows) THEN [raised |-> None, result |-> <<k - 1>>, files |-> fs]
    ELSE LET r == RowStep(tdoc, rows[k], mapping, fncol, map, fs)
         IN  IF r.raised # None
             THEN [raised |-> r.raised, result |-> <<>>, files |-> r.files]
             ELSE RunRows(tdoc, rows, k + 1, mapping, fncol, map, r.files)

\* A mutant of the test of line 154: the template is parsed once, never again.
TemplateChangedOnce(tf, last) == last = None

\* template_file != st.session_state.get('last_template_file')
TemplateChanged(tf, last) == tf # last

\* The mapping the select boxes give: one column for each listed variable.
UiMappings(variables, columns) ==
    {[k \in DOMAIN variables |-> <<variables[k], cs[k]>>] :
        cs \in [DOMAIN variables -> columns]}

SessionUnchanged ==
    UNCHANGED <<template_doc, template_variables, var_paragraphs_map, last_template_file>>

Rerun ==
    \E tf \in FileIds \cup {None}, sf \in Spreadsheets \cup {None}, pressed \in BOOLEAN :
        /\ pc = "main"
        /\ template_file' = tf
        /\ spreadsheet_file' = sf
        /\ IF tf = None \/ sf = None \/ sf = "bad"
           THEN \* nothing to do, or st.stop() after the failed conversion
                /\ parsed' = FALSE
                /\ SessionUnchanged
                /\ UNCHANGED <<gen_call, files, dir_exists, raised, result>>
           ELSE IF TemplateChanged(tf, last_template_file) /\ ~file_content[tf].ok
           THEN \* Document(template_file) raises: the rerun ends there
                /\ parsed' = TRUE
                /\ SessionUnchanged
                /\ UNCHANGED <<gen_call, files, dir_exists, raised, result>>
           ELSE /\ parsed' = TemplateChanged(tf, last_template_file)
                /\ IF TemplateChanged(tf, last_template_file)
                   THEN LET r == ExtractVariablesFromTemplate(file_content[tf].doc)
                        IN  /\ template_doc' = file_content[tf].doc
                            /\ template_variables' \in Orderings(r.variables)
                            /\ var_paragraphs_map' = r.var_paragraphs
                            /\ last_template_file' = tf
                   ELSE SessionUnchanged
                /\ IF template_variables' # <<>> /\ pressed
                   THEN \E mapping \in UiMappings(template_variables', MainFrame.columns) :
                          LET g == RunRows(template_doc', MainFrame.rows, 1, mapping,
                                           "c1", var_paragraphs_map', files)
                          IN  /\ gen_call' = << [template_doc |-> template_doc',
                                                 var_paragraphs_map |-> var_paragraphs_map',
                                                 template_file |-> tf] >>
                              /\ files' = g.files
                              /\ dir_exists' = TRUE
                              /\ raised' = g.raised
                              /\ result' = g.result
                   ELSE UNCHANGED <<gen_call, files, dir_exists, raised, result>>
        /\ UNCHANGED <<df, column_mapping, filename_column, pc, idx, doc_count, doc,
                       file_content>>

InitMain ==
    /\ file_content \in [FileIds -> MainContents]
    /\ template_doc = None /\ template_variables = None /\ var_paragraphs_map = None
    /\ last_template_file = None
    /\ template_file = None /\ spreadsheet_file = None
    /\ gen_call = <<>> /\ parsed = FALSE
    /\ df = None /\ column_mapping = <<>> /\ filename_column = None
    /\ pc = "main" /\ idx = 0 /\ doc_count = 0 /\ doc = None
    /\ files = <<>> /\ dir_exists = FALSE /\ raised = None /\ result = <<>>

NextMain == Rerun

SpecMain == InitMain /\ [][NextMain]_vars

(***************************************************************************)
(* What the claims speak of, stated without the scanning algorithm.        *)
(***************************************************************************)
\* The names of the {name} tokens of a text: a "{", a "}" after it, and between
\* them one or more characters none of which is a brace.
TokenNames(text) ==
    {SubSeq(text, pq[1] + 1, pq[2] - 1) :
        pq \in {xy \in (1..Len(text)) \X (1..Len(text)) :
                  /\ xy[1] + 1 < xy[2]
                  /\ text[xy[1]] = "{" /\ text[xy[2]] = "}"
                  /\ \A k \in (xy[1] + 1)..(xy[2] - 1) : text[k] \notin Braces}}

\* The number of places of a text where the literal token stands.
Occurrences(text, tok) ==
    Cardinality({p \in 1..(Len(text) - Len(tok) + 1) :
                    SubSeq(text, p, p + Len(tok) - 1) = tok})

CountOf(list, i) == Cardinality({k \in DOMAIN list : list[k] = i})

TopTexts(d) == {d.paragraphs[j].text : j \in DOMAIN d.paragraphs}

CellTexts(d) ==
    UNION {UNION {UNION {{d.tables[t][r][c][q].text : q \in DOMAIN d.tables[t][r][c]}
        : c \in DOMAIN d.tables[t][r]} : r \in DOMAIN d.tables[t]} : t \in DOMAIN d.tables}

TopNames(d) == UNION {TokenNames(x) : x \in TopTexts(d)}
CellNames(d) == UNION {TokenNames(x) : x \in CellTexts(d)}

\* Names the position index is asked about: its keys, every token name of the
\* template, and the short names over the letters of the templates.
ShortNames == UNION {[1..k -> {"a", "n"}] : k \in 1..2}
AskedNames(d, map) == DOMAIN map \cup TopNames(d) \cup CellNames(d) \cup ShortNames

\* C1: the variable list returned by extract_variables_from_template holds, as
\* a set, exactly the names of the {name} tokens of the top-level blocks and of
\* the paragraphs of the table cells, and lists no name twice.
C1_VariablesExact ==
    pc = "indexed" =>
        /\ Range(template_variables) = TopNames(template_doc) \cup CellNames(template_doc)
        /\ Len(template_variables) = Cardinality(Range(template_variables))

\* A name found only in a table cell is listed beside one found in a block.
C1_Witness ==
    /\ pc = "indexed"
    /\ \E v \in CellNames(template_doc) \ TopNames(template_doc) :
          v \in Range(template_variables)
    /\ \E v \in TopNames(template_doc) : v \in Range(template_variables)

\* C2: for every top-level block index i and name v, i stands in the Position
\* Index list of v once per occurrence of the literal token {v} in block i
\* (so it is in the list iff the block holds the token), the list holds
\* nothing but block indices, and table cells add no entry.
C2_PositionIndex ==
    pc = "indexed" =>
        /\ \A v \in AskedNames(template_doc, var_paragraphs_map) :
             \A i \in 0..(Len(template_doc.paragraphs) - 1) :
                CountOf(MapGet(var_paragraphs_map, v), i)
                    = Occurrences(template_doc.paragraphs[i + 1].text, Tok(v))
        /\ \A v \in DOMAIN var_paragraphs_map :
             Range(var_paragraphs_map[v]) \subseteq 0..(Len(template_doc.paragraphs) - 1)

\* A block holds a token twice and its index is listed twice, while a name
\* that only a table cell holds has no entry.
C2_Witness ==
    /\ pc = "indexed"
    /\ \E v \in DOMAIN var_paragraphs_map :
          \E i \in 0..(Len(template_doc.paragraphs) - 1) :
             CountOf(var_paragraphs_map[v], i) = 2
    /\ \E v \in CellNames(template_doc) : MapGet(var_paragraphs_map, v) = <<>>

(***************************************************************************)
(* Rendering and the batch, as the claims state them.                      *)
(***************************************************************************)
MappedVars == Range(MappingVars(column_mapping))

\* The variable whose token stands at place p of the text, if one is mapped.
TokenAt(text, p, names) ==
    {v \in names : /\ p + Len(v) + 1 <= Len(text)
                   /\ SubSeq(text, p, p + Len(v) + 1) = Tok(v)}

\* The text with every token of a mapped variable replaced, in one pass, by
\* what `valueOf` gives for the variable, and every other character kept.
RECURSIVE Substituted(_, _, _, _)
Substituted(text, p, names, valueOf) ==
    IF p > Len(text) THEN <<>>
    ELSE IF TokenAt(text, p, names) # {}
         THEN LET v == CHOOSE w \in TokenAt(text, p, names) : TRUE
              IN  valueOf[v] \o Substituted(text, p + Len(v) + 2, names, valueOf)
         ELSE <<text[p]>> \o Substituted(text, p + 1, names, valueOf)

\* A row has been rendered and saved: it is row idx, and doc is its document.
RowRendered == pc \in {"loop", "done"} /\ idx >= 1

LastRow == df.rows[idx]

TextFormOf(row) == [v \in MappedVars |-> Str(row[ColumnOf(column_mapping, v)])]

\* C3: every block written for a row has the style of the template block and
\* the template text with each token of a mapped variable replaced by the text
\* form of the row's value, every other character unchanged.
C3_BlocksSubstituted ==
    RowRendered =>
        /\ Len(doc.paragraphs) = Len(template_doc.paragraphs)
        /\ \A j \in DOMAIN template_doc.paragraphs :
              /\ doc.paragraphs[j].style = template_doc.paragraphs[j].style
              /\ doc.paragraphs[j].text =
                    Substituted(template_doc.paragraphs[j].text, 1, MappedVars,
                                TextFormOf(LastRow))

\* The row generate_documents is at, or was at when it ended.
RowTaken == pc \in {"loop", "done"} /\ (idx >= 1 \/ raised # None)

CurrentRow == IF raised # None THEN df.rows[idx + 1] ELSE df.rows[idx]

IsEmptyValue(value) == value = NaN \/ value = <<>>

\* The mapped variables whose column the row lacks or holds empty.
MissingOrEmpty(row) ==
    {v \in MappedVars :
        \/ ColumnOf(column_mapping, v) \notin DOMAIN row
        \/ IsEmptyValue(row[ColumnOf(column_mapping, v)])}

EmptyForMissing(row) ==
    [v \in MappedVars |->
        IF v \in MissingOrEmpty(row) THEN <<>>
        ELSE Str(row[ColumnOf(column_mapping, v)])]

\* A value that is text without a backslash or a brace.
IsPlain(value) == value # NaN /\ \A k \in DOMAIN value : value[k] \notin {"\\", "{", "}"}

OthersPlain(row) ==
    \A v \in MappedVars \ MissingOrEmpty(row) :
        IsPlain(row[ColumnOf(column_mapping, v)])

\* C4: when a row's mapped column is absent or its value is empty, no error is
\* raised and every token of the variable is replaced by the empty string.
\* (Taken on the rows whose other mapped values are plain text, where nothing
\* but the absent or empty value decides what is written.)
C4_EmptyForMissingOrEmpty ==
    (RowTaken /\ MissingOrEmpty(CurrentRow) # {} /\ OthersPlain(CurrentRow)) =>
        /\ raised = None
        /\ \A j \in DOMAIN template_doc.paragraphs :
              doc.paragraphs[j].text =
                  Substituted(template_doc.paragraphs[j].text, 1, MappedVars,
                              EmptyForMissing(CurrentRow))

MapsAbsentColumn == \E k \in DOMAIN column_mapping : column_mapping[k][2] \notin df.columns

\* C5: when the Column Mapping names a column the rows lack, generate_documents
\* ends with an error at the first row and returns no count, and neither that
\* row nor a later one is persisted: the output directory stays as it was.
C5_MissingColumnAborts ==
    (MapsAbsentColumn /\ Len(df.rows) > 0) =>
        /\ DOMAIN files = {} /\ doc_count = 0 /\ idx = 0 /\ result = <<>>
        /\ pc = "done" => raised = "KeyError"

\* The batch has ended with the error, with two rows to process and a file
\* name column that is present.
C5_Witness ==
    /\ MapsAbsentColumn /\ Len(df.rows) = 2 /\ filename_column \in df.columns
    /\ pc = "done" /\ raised = "KeyError"

NameOfRow(j) == DeriveFilename(df.rows[j][filename_column])

RenderingOfRow(j) ==
    RenderRow(template_doc, df.rows[j], column_mapping, var_paragraphs_map).doc

LastWith(name, k) ==
    CHOOSE j \in 1..k : NameOfRow(j) = name /\ \A m \in 1..k : NameOfRow(m) = name => m <= j

\* C6: the rows are processed in row order, one document saved per row under
\* its derived name; after k rows the files are the derived names of those
\* rows, each holding the rendering of the last of them with that name, and
\* the count is k; rows deriving the same name (the empty one too) do not make
\* the batch fail, and the count returned is the number of rows.
C6_LastWriteWins ==
    pc \in {"loop", "done"} =>
        /\ doc_count = idx
        /\ filename_column \in df.columns =>
              /\ DOMAIN files = {NameOfRow(j) : j \in 1..idx}
              /\ \A name \in DOMAIN files :
                    files[name] = RenderingOfRow(LastWith(name, idx))
        /\ raised # None => (MapsAbsentColumn \/ filename_column \notin df.columns)
        /\ (pc = "done" /\ raised = None) => (result = <<Len(df.rows)>> /\ idx = Len(df.rows))

\* Two rows derive the empty name and render differently; the batch returned
\* 2 and the one file holds the second row's rendering.
C6_Witness ==
    /\ pc = "done" /\ result = <<2>> /\ filename_column \in df.columns
    /\ NameOfRow(1) = <<>> /\ NameOfRow(2) = <<>>
    /\ RenderingOfRow(1) # RenderingOfRow(2)
    /\ DOMAIN files = {<<>>}
    /\ files[<<>>] = RenderingOfRow(2)

SpaceToUnderscore(text) == [k \in DOMAIN text |-> IF text[k] = " " THEN "_" ELSE text[k]]

IsNameChar(c) == c \in WordChars \/ c \in {"-", "_", "."}

John_Doe2024 == <<"J","o","h","n","_","D","o","e","2","0","2","4">>

\* C7: the base name under which a row is saved is the text form of its
\* filename-source value with every space replaced by an underscore and then
\* every character that is not a word character, hyphen, underscore or period
\* removed, the rest in order; "John Doe/2024" gives "John_Doe2024".
C7_DerivedName ==
    (pc \in {"loop", "done"} /\ idx = 1 /\ filename_column \in df.columns) =>
        LET value == df.rows[1][filename_column]
            name == SelectSeq(SpaceToUnderscore(Str(value)), IsNameChar)
        IN  /\ DOMAIN files = {name}
            /\ \A f \in DOMAIN files : \A k \in DOMAIN f : IsNameChar(f[k])
            /\ value = JohnDoe2024 => DOMAIN files = {John_Doe2024}

\* The row whose value is "John Doe/2024" has been saved as John_Doe2024.
C7_Witness ==
    /\ pc = "done" /\ result = <<1>>
    /\ df.rows[1][filename_column] = JohnDoe2024
    /\ John_Doe2024 \in DOMAIN files

\* C8: the text written for a block is the same whatever the order in which
\* the per-variable replacements of its candidate variables are applied.
C8_OrderIndependent ==
    RowRendered =>
        \A j \in DOMAIN template_doc.paragraphs :
            \A order \in Orderings(Range(VariablesToReplace(column_mapping,
                                                            var_paragraphs_map, j - 1))) :
                LET r == SubAll(order, template_doc.paragraphs[j].text, TextFormOf(LastRow))
                IN  r.ok /\ r.text = doc.paragraphs[j].text

\* C9: every token of a table cell of the template stands as literal {name}
\* text in the document generated for a row.
C9_TableTokensLiteral ==
    RowRendered =>
        \A v \in CellNames(template_doc) :
            \E text \in TopTexts(doc) \cup CellTexts(doc) : Occurrences(text, Tok(v)) > 0

\* The document and the index that parsing the file gives.
IndexOf(d) == ExtractVariablesFromTemplate(d)

CacheIsOfLastFile ==
    last_template_file # None =>
        /\ file_content[last_template_file].ok
        /\ template_doc = file_content[last_template_file].doc
        /\ Range(template_variables) = IndexOf(template_doc).variables
        /\ Len(template_variables) = Cardinality(Range(template_variables))
        /\ var_paragraphs_map = IndexOf(template_doc).var_paragraphs

CallIsOfUploadedFile ==
    \A k \in DOMAIN gen_call :
        /\ gen_call[k].var_paragraphs_map = IndexOf(gen_call[k].template_doc).var_paragraphs
        /\ gen_call[k].template_doc = file_content[gen_call[k].template_file].doc

\* C10: across reruns of main the cached document, variable list and position
\* index are those of the file recorded in last_template_file; a rerun parses
\* the template only when the uploaded file differs from last_template_file;
\* and every generate_documents call gets the position index of the document
\* passed with it, which is the document of the file uploaded at that rerun.
C10_SessionCache ==
    /\ [](CacheIsOfLastFile /\ CallIsOfUploadedFile)
    /\ [][parsed' => template_file' # last_template_file]_vars

\* generate_documents was called with one template; a later rerun found
\* another file uploaded, parsed it, and the cache now holds its document.
C10_Witness ==
    /\ parsed /\ gen_call # <<>>
    /\ gen_call[1].template_file # template_file
    /\ last_template_file = template_file
    /\ template_doc # gen_call[1].template_doc

====
